---- MODULE Spec2Model ----
(***************************************************************************)
(* The CHIP-8 interpreter of src/src/chip.rs driven by the run loop of     *)
(* src/src/main.rs.                                                        *)
(*                                                                         *)
(* The variable chip is the struct Chip8 (one record field per struct      *)
(* field).  Two arrays are stored sparsely: chip.mem is a function whose   *)
(* domain is the set of addresses holding a non-zero byte (every other     *)
(* address of the 4096 holds 0) and chip.graphics is the set of indices of *)
(* the cells holding 1 (the code stores only 0 and 1 there).  The field    *)
(* chip.panic is not a struct field: it records that the thread panicked   *)
(* (index out of bounds, todo!(), arithmetic overflow in a build with      *)
(* overflow checks), which ends the process.                               *)
(***************************************************************************)
EXTENDS Integers, Sequences, FiniteSets, TLC

VARIABLES chip, ctl, overflow_checks, cycles, pre, trace

vars == <<chip, ctl, overflow_checks, cycles, pre, trace>>

\* ---------------------------------------------------------------- bounds
\* Iterations of main's loop that are explored.
MaxCycles == 17

\* ------------------------------------------------------ program constants
MemSize == 4096
GraphicsSize == 2048
StackLen == 16
ProgramBase == 512
U8Max == 255
U16Max == 65535
U12Max == 4095
debug == TRUE

fontset ==
  << 240, 144, 144, 144, 240,   32,  96,  32,  32, 112,
     240,  16, 240, 128, 240,  240,  16, 240,  16, 240,
     144, 144, 240,  16,  16,  240, 128, 240,  16, 240,
     240, 128, 240, 144, 240,  240,  16,  32,  64,  64,
     240, 144, 240, 144, 240,  240, 144, 240,  16, 240,
     240, 144, 240, 144, 144,  224, 144, 224, 144, 224,
     240, 128, 128, 128, 240,  224, 144, 144, 144, 224,
     240, 128, 240, 128, 240,  240, 128, 240, 128, 128 >>

\* ------------------------------------------------------- machine integers
RECURSIVE BitAnd(_, _)
\* a & b
BitAnd(a, b) ==
  IF a = 0 \/ b = 0 THEN 0
  ELSE (IF a % 2 = 1 /\ b % 2 = 1 THEN 1 ELSE 0) + 2 * BitAnd(a \div 2, b \div 2)

RECURSIVE BitOr(_, _)
\* a | b
BitOr(a, b) ==
  IF a = 0 THEN b
  ELSE IF b = 0 THEN a
  ELSE (IF a % 2 = 1 \/ b % 2 = 1 THEN 1 ELSE 0) + 2 * BitOr(a \div 2, b \div 2)

RECURSIVE BitXor(_, _)
\* a ^ b
BitXor(a, b) ==
  IF a = 0 THEN b
  ELSE IF b = 0 THEN a
  ELSE (IF a % 2 # b % 2 THEN 1 ELSE 0) + 2 * BitXor(a \div 2, b \div 2)

\* a >> n and a << n on unbounded integers (callers truncate to the width)
Shr(a, n) == a \div (2 ^ n)
Shl(a, n) == a * (2 ^ n)

\* The thread panics: the struct keeps the fields written so far.
Panic(c) == [c EXCEPT !.panic = TRUE]

\* Outcome of an integer operation whose mathematical result is v, in a type
\* holding 0..max: in range it is v; out of range the build decides (a panic
\* with overflow checks, the wrapped value without).  "ovf" marks the panic.
Arith(v, max) ==
  IF 0 <= v /\ v <= max THEN [ovf |-> FALSE, val |-> v]
  ELSE IF overflow_checks THEN [ovf |-> TRUE, val |-> 0]
  ELSE [ovf |-> FALSE, val |-> v % (max + 1)]

\* ----------------------------------------------------- the sparse arrays
\* self.mem[a] for a in 0..4095
MemRead(c, a) == IF a \in DOMAIN c.mem THEN c.mem[a] ELSE 0

\* self.mem[a] = v for a in 0..4095
MemWrite(c, a, v) ==
  LET keep == (DOMAIN c.mem) \ {a}
      dom == IF v = 0 THEN keep ELSE keep \cup {a}
  IN [c EXCEPT !.mem = [b \in dom |-> IF b = a THEN v ELSE c.mem[b]]]

\* self.graphics[i] for i in 0..2047
GfxRead(c, i) == IF i \in c.graphics THEN 1 ELSE 0

\* ------------------------------------------------------------ opcode fields
\* (self.opcode >> 8) & 0x0F
OpX(op) == BitAnd(Shr(op, 8), 15)
\* (self.opcode >> 4) & 0x0F
OpY(op) == BitAnd(Shr(op, 4), 15)
\* self.opcode & 0xFF
OpKK(op) == BitAnd(op, 255)

\* --------------------------------------------------------------- Chip8::new
New ==
  [ opcode |-> 0, ar |-> 0, pc |-> ProgramBase, sp |-> 0,
    stack |-> [i \in 0..(StackLen - 1) |-> 0],
    registers |-> [i \in 0..15 |-> 0],
    mem |-> [a \in 0..(Len(fontset) - 1) |-> fontset[a + 1]],
    delay |-> 0, sound |-> 0,
    graphics |-> {},
    panic |-> FALSE ]

\* ------------------------------------------------- get_next_instruction
get_next_instruction(c) ==
  LET i == c.pc
      next == Arith(c.pc + 2, U16Max)
  IN IF i >= MemSize \/ i + 1 >= MemSize THEN Panic(c)
     ELSE LET f == [c EXCEPT !.opcode = BitOr(Shl(MemRead(c, i), 8), MemRead(c, i + 1))]
          IN IF next.ovf THEN Panic(f) ELSE [f EXCEPT !.pc = next.val]

\* ----------------------------------------------------------- clear_display
clear_display(c) == [c EXCEPT !.graphics = {}]

\* ------------------------------------------------- execute: the match arms
\* self.registers[x] = v
SetReg(c, x, v) == [c EXCEPT !.registers[x] = v]

\* self.pc += 2
SkipNext(c) ==
  LET r == Arith(c.pc + 2, U16Max)
  IN IF r.ovf THEN Panic(c) ELSE [c EXCEPT !.pc = r.val]

RECURSIVE RetLoop(_, _)
\* 00EE: for i in 0..self.stack.len(), from iteration i on.  The iteration
\* i = 0 reads self.stack[i - 1] and breaks; the line after the loop only
\* prints.  i - 1 is a usize: below 0 it panics with overflow checks and is
\* usize::MAX without, an index outside the 16 slots, which panics as well.
RetLoop(c, i) ==
  IF i >= StackLen THEN c
  ELSE IF i = 0
    THEN LET idx == i - 1
         IN IF idx < 0 \/ idx >= StackLen THEN Panic(c)
            ELSE LET p == [c EXCEPT !.pc = c.stack[idx]]
                     d == Arith(p.sp - 1, U8Max)
                 IN IF d.ovf THEN Panic(p) ELSE [p EXCEPT !.sp = d.val]
    ELSE RetLoop(c, i + 1)

\* 00EE
Op00EE(c) == RetLoop(c, 0)

\* class 0: match self.opcode { 0x00E0, 0x00EE, _ }
Op0(c) ==
  IF c.opcode = 224 THEN clear_display(c)
  ELSE IF c.opcode = 238 THEN Op00EE(c)
  ELSE c

\* 1nnn: self.pc = self.opcode & 0xF
Op1nnn(c) == [c EXCEPT !.pc = BitAnd(c.opcode, 15)]

\* The slots i with self.stack[i] == 0, which the push loop of 2nnn looks for.
FreeSlots(c) == {i \in 0..(StackLen - 1) : c.stack[i] = 0}

\* 2nnn: self.sp += 1; the first slot holding 0 takes self.pc (no slot is
\* written when none holds 0); self.pc = self.opcode >> 4
Op2nnn(c) ==
  LET s == Arith(c.sp + 1, U8Max)
  IN IF s.ovf THEN Panic(c)
     ELSE LET free == FreeSlots(c)
              first == CHOOSE i \in free : \A j \in free : i <= j
              pushed == IF free = {} THEN c.stack
                        ELSE [c.stack EXCEPT ![first] = c.pc]
          IN [c EXCEPT !.sp = s.val, !.stack = pushed, !.pc = Shr(c.opcode, 4)]

\* 3xkk
Op3xkk(c) ==
  IF c.registers[OpX(c.opcode)] = OpKK(c.opcode) THEN SkipNext(c) ELSE c

\* 4xkk
Op4xkk(c) ==
  IF c.registers[OpX(c.opcode)] # OpKK(c.opcode) THEN SkipNext(c) ELSE c

\* 5xy0
Op5xy0(c) ==
  IF c.registers[OpX(c.opcode)] = c.registers[OpY(c.opcode)] THEN SkipNext(c) ELSE c

\* Mutant of Op6xkk: the immediate masked to 4 bits, as 1nnn and Annn mask theirs
Op6xkk_NibbleImmediate(c) == SetReg(c, OpX(c.opcode), BitAnd(c.opcode, 15))

\* 6xkk: self.registers[x] = (self.opcode & 0xFF) as u8
Op6xkk(c) == SetReg(c, OpX(c.opcode), OpKK(c.opcode))

\* 7xkk: self.registers[x] += (self.opcode & 0xFF) as u8
Op7xkk(c) ==
  LET x == OpX(c.opcode)
      r == Arith(c.registers[x] + OpKK(c.opcode), U8Max)
  IN IF r.ovf THEN Panic(c) ELSE SetReg(c, x, r.val)

\* 9xy0
Op9xy0(c) ==
  IF c.registers[OpX(c.opcode)] # c.registers[OpY(c.opcode)] THEN SkipNext(c) ELSE c

\* Annn: self.registers[usize::from(self.ar)] = (self.opcode & 0xF) as u8
OpAnnn(c) ==
  IF c.ar >= 16 THEN Panic(c) ELSE SetReg(c, c.ar, BitAnd(c.opcode, 15))

\* Bnnn: self.pc = self.opcode & 0xF + v0 as u16, where + binds before &
OpBnnn(c) ==
  LET v0 == c.registers[0]
      m == Arith(15 + v0, U16Max)
  IN IF m.ovf THEN Panic(c) ELSE [c EXCEPT !.pc = BitAnd(c.opcode, m.val)]

\* Cxkk: rand_byte is the value of rand::random::<u8>()
OpCxkk(c, rand_byte) == SetReg(c, OpX(c.opcode), BitAnd(rand_byte, OpKK(c.opcode)))

\* class 8: vx, vy, then match self.opcode >> 12 { 0x0..0x7, 0xE, _ }
Op8(c) ==
  LET x == OpX(c.opcode)
      vx == c.registers[x]
      vy == c.registers[OpY(c.opcode)]
      sel == Shr(c.opcode, 12)
  IN CASE sel = 0 -> SetReg(c, x, vy)
       [] sel = 1 -> SetReg(c, x, BitOr(vx, vy))
       [] sel = 2 -> SetReg(c, x, BitAnd(vx, vy))
       [] sel = 3 -> SetReg(c, x, BitXor(vx, vy))
       [] sel = 4 ->
            LET sum == vx + vy
                result == IF sum > 255 THEN sum % 255 ELSE sum
                flagged == SetReg(c, 15, IF sum > 255 THEN 1 ELSE 0)
            IN SetReg(flagged, x, result % 256)
       [] sel = 5 ->
            LET flagged == SetReg(c, 15, IF vx > vy THEN 1 ELSE 0)
                r == Arith(vx - vy, U8Max)
            IN IF r.ovf THEN Panic(flagged) ELSE SetReg(flagged, x, r.val)
       [] sel = 6 -> SetReg(SetReg(c, 15, BitAnd(vx, 1)), x, Shr(vx, 1))
       [] sel = 7 ->
            LET flagged == SetReg(c, 15, IF vy > vx THEN 1 ELSE 0)
                r == Arith(vy - vx, U8Max)
            IN IF r.ovf THEN Panic(flagged) ELSE SetReg(flagged, x, r.val)
       [] sel = 14 ->
            SetReg(SetReg(c, 15, BitAnd(Shr(vx, 7), 1)), x, Shl(vx, 1) % 256)
       [] OTHER -> c

RECURSIVE DrawCols(_, _, _, _, _, _)
\* draw_sprite: for col in 0..8, from iteration col on, of one sprite row.
\* bits[col] is bit 7 - col of the sprite byte; the index x_cor * 64 + y_cor
\* is computed in u8 and only when bits[col] == 1.
DrawCols(c, sprite, x_coord, y_coord, row, col) ==
  IF col >= 8 THEN c
  ELSE
    LET x_cor == Arith(x_coord + col, U8Max)
        y_cor == Arith(y_coord + row, U8Max)
        bit == BitAnd(Shr(sprite, 7 - col), 1)
        mul == Arith(x_cor.val * 64, U8Max)
        idx == Arith(mul.val + y_cor.val, U8Max)
        drawn ==
          IF bit # 1 THEN c
          ELSE IF mul.ovf \/ idx.ovf \/ idx.val >= GraphicsSize THEN Panic(c)
          ELSE IF GfxRead(c, idx.val) = 1 THEN SetReg(c, 15, 1)
          ELSE [c EXCEPT !.graphics = c.graphics \cup {idx.val}]
    IN IF x_cor.ovf \/ y_cor.ovf THEN Panic(c)
       ELSE IF drawn.panic THEN drawn
       ELSE IF y_cor.val > 63 THEN drawn
       ELSE DrawCols(drawn, sprite, x_coord, y_coord, row, col + 1)

RECURSIVE DrawRows(_, _, _, _, _)
\* draw_sprite: for row in 0..n, from iteration row on.
DrawRows(c, x_coord, y_coord, n, row) ==
  IF row >= n THEN c
  ELSE IF c.ar + row >= MemSize THEN Panic(c)
  ELSE
    LET sprite == MemRead(c, c.ar + row)
        done == DrawCols(c, sprite, x_coord, y_coord, row, 0)
        last == Arith(x_coord + row, U8Max)
    IN IF done.panic THEN done
       ELSE IF last.ovf THEN Panic(done)
       ELSE IF last.val > 31 THEN done
       ELSE DrawRows(done, x_coord, y_coord, n, row + 1)

\* Dxyn
draw_sprite(c) ==
  LET x == OpX(c.opcode)
      y == OpY(c.opcode)
      n == Shr(c.opcode, 12) % 256
      x_coord == c.registers[x] % 64
      y_coord == c.registers[y] % 32
  IN DrawRows(SetReg(c, 15, 0), x_coord, y_coord, n, 0)

\* Mutant of OpE: the catch-all arm is a todo!() as well
OpE_TodoOnUnknown(c) == Panic(c)

\* class E: 0x9E and 0xA1 are todo!()
OpE(c) ==
  IF OpKK(c.opcode) \in {158, 161} THEN Panic(c) ELSE c

RECURSIVE ToDigits(_)
\* vx.to_string().chars().map(to_digit): the decimal digits, first digit first
ToDigits(v) == IF v < 10 THEN <<v>> ELSE Append(ToDigits(v \div 10), v % 10)

\* .rev()
Reverse(s) == [i \in 1..Len(s) |-> s[Len(s) + 1 - i]]

RECURSIVE StoreBytes(_, _, _)
\* for i in 0..value.len() { self.mem[ar + i] = value[i] }, from iteration i on
StoreBytes(c, value, i) ==
  IF i >= Len(value) THEN c
  ELSE IF c.ar + i >= MemSize THEN Panic(c)
  ELSE StoreBytes(MemWrite(c, c.ar + i, value[i + 1]), value, i + 1)

RECURSIVE LoadRegs(_, _, _)
\* for i in 0..=x { self.registers[i] = self.mem[ar + i] }, from iteration i on
LoadRegs(c, x, i) ==
  IF i > x THEN c
  ELSE IF c.ar + i >= MemSize THEN Panic(c)
  ELSE LoadRegs(SetReg(c, i, MemRead(c, c.ar + i)), x, i + 1)

\* class F
OpF(c) ==
  LET x == OpX(c.opcode)
      vx == c.registers[x]
      kk == OpKK(c.opcode)
  IN CASE kk = 7 -> SetReg(c, x, c.delay)
       [] kk = 10 -> Panic(c)
       [] kk = 21 -> [c EXCEPT !.sound = vx]
       [] kk = 24 -> [c EXCEPT !.delay = vx]
       [] kk = 30 ->
            \* Add for U12 panics when the sum leaves 0..4095, in every build
            IF c.ar + vx > U12Max THEN Panic(c) ELSE [c EXCEPT !.ar = c.ar + vx]
       [] kk = 41 ->
            LET r == Arith(vx * 5, U8Max)
            IN IF r.ovf THEN Panic(c) ELSE [c EXCEPT !.ar = r.val]
       [] kk = 51 -> StoreBytes(c, Reverse(ToDigits(vx)), 0)
       [] kk = 85 -> StoreBytes(c, [i \in 1..(x + 1) |-> c.registers[i - 1]], 0)
       [] kk = 101 -> LoadRegs(c, x, 0)
       [] OTHER -> c

\* ------------------------------------------------------------------ execute
\* match (self.opcode >> 12) & 0xF
Dispatch(c, rand_byte) ==
  LET class == BitAnd(Shr(c.opcode, 12), 15)
  IN CASE class = 0 -> Op0(c)
       [] class = 1 -> Op1nnn(c)
       [] class = 2 -> Op2nnn(c)
       [] class = 3 -> Op3xkk(c)
       [] class = 4 -> Op4xkk(c)
       [] class = 5 -> Op5xy0(c)
       [] class = 6 -> Op6xkk(c)
       [] class = 7 -> Op7xkk(c)
       [] class = 8 -> Op8(c)
       [] class = 9 -> Op9xy0(c)
       [] class = 10 -> OpAnnn(c)
       [] class = 11 -> OpBnnn(c)
       [] class = 12 -> OpCxkk(c, rand_byte)
       [] class = 13 -> draw_sprite(c)
       [] class = 14 -> OpE(c)
       [] class = 15 -> OpF(c)
       [] OTHER -> c

\* The println! of execute when self.debug: it indexes self.mem[self.pc] and
\* self.mem[self.pc + 1] with the pc the fetch has just advanced.
DebugPrintPanics(c) == debug /\ (c.pc >= MemSize \/ c.pc + 1 >= MemSize)

\* Whether execute, entered in c, gets as far as its match.
Dispatches(c) ==
  LET f == get_next_instruction(c)
  IN ~f.panic /\ ~DebugPrintPanics(f)

\* Mutant of execute: every executed instruction also counts the non-zero
\* timers down by one
execute_TickingTimers(c, rand_byte) ==
  LET f == get_next_instruction(c)
      d == IF f.panic THEN f
           ELSE IF DebugPrintPanics(f) THEN Panic(f)
           ELSE Dispatch(f, rand_byte)
  IN IF d.panic THEN d
     ELSE [d EXCEPT !.delay = IF @ > 0 THEN @ - 1 ELSE 0,
                    !.sound = IF @ > 0 THEN @ - 1 ELSE 0]

\* Chip8::execute
execute(c, rand_byte) ==
  LET f == get_next_instruction(c)
  IN IF f.panic THEN f
     ELSE IF DebugPrintPanics(f) THEN Panic(f)
     ELSE Dispatch(f, rand_byte)

\* ----------------------------------------------------------------- load_rom
RECURSIVE CopyRom(_, _, _)
\* for i in 0..file.len() { self.mem[0x200 + i] = file[i] }, from iteration i on
CopyRom(c, file, i) ==
  IF i >= Len(file) THEN c
  ELSE IF ProgramBase + i >= MemSize THEN Panic(c)
  ELSE CopyRom(MemWrite(c, ProgramBase + i, file[i + 1]), file, i + 1)

\* Chip8::load_rom, given the bytes std::fs::read returned
load_rom(c, file) == CopyRom(c, file, 0)

\* ------------------------------------------------------------------- inputs
\* The 16-bit word with the nibbles a b c d
W(a, b, c, d) == a * 4096 + b * 256 + c * 16 + d

\* The two bytes of a word, high byte first (the program image format)
BytesOf(w) == <<w \div 256, w % 256>>

\* The word the ROMs hold at the addresses 0x200 and 0x204: LD VE, 0xEE
Fill == W(6, 14, 14, 14)

\* The instructions the ROMs hold at the address 0x206
Instructions ==
  { W(0,0,0,0), W(0,0,14,0), W(0,0,14,14) }
  \cup { W(1,2,0,6) }
  \cup { W(2,0,0,0), W(2,0,4,0) }
  \cup { W(3,0,0,0), W(4,0,0,0), W(5,0,1,0), W(9,0,1,0) }
  \cup { W(6, x, k, 10) : x \in {0, 1, 15}, k \in {0, 15} }
  \cup { W(7, x, k, 10) : x \in {0, 1}, k \in {0, 15} }
  \cup { W(8,0,1,4), W(8,1,0,4), W(8,0,1,5), W(8,1,0,5), W(8,0,1,6), W(8,0,1,14),
         W(8,0,1,8) }
  \cup { W(10,1,2,3), W(11,2,15,0), W(12,0,15,15) }
  \cup { W(13,0,0,5), W(13,0,0,0), W(13,0,0,13) }
  \cup { W(14,0,9,14), W(14,0,0,0) }
  \cup { W(15,0,0,7), W(15,0,0,10), W(15,0,1,5), W(15,0,1,8), W(15,0,1,14),
         W(15,0,2,9), W(15,0,3,3), W(15,0,5,5), W(15,1,6,5), W(15,0,15,15) }

\* The instructions the ROMs hold at the address 0x202
Setup ==
  { W(0,0,0,0), W(1,2,0,6), W(2,0,0,0), W(2,0,4,0), W(3,0,0,0) }
  \cup { W(6, x, k, 10) : x \in {0, 1, 15}, k \in {0, 15} }
  \cup { W(13,0,0,5), W(15,1,6,5) }

\* The instructions the ROMs hold at the address 0x20A
Final ==
  { W(0,0,0,0), W(0,0,14,14), W(8,0,1,4), W(8,0,1,5), W(10,1,2,3), W(15,1,0,7) }

\* The ROM files: Fill, a, Fill, b, Fill, c
Roms ==
  { BytesOf(Fill) \o BytesOf(a) \o BytesOf(Fill) \o BytesOf(b)
      \o BytesOf(Fill) \o BytesOf(c) :
      a \in Setup, b \in Instructions, c \in Final }

\* The values rand::random::<u8>() returns
RandBytes == {0, 90, 255}

\* ------------------------------------------------------------------ actions
\* ctl is the statement of main that runs next.
Init ==
  /\ chip = New
  /\ ctl = "clear_display"
  /\ overflow_checks \in BOOLEAN
  /\ cycles = 0
  /\ pre = New
  /\ trace = << >>

\* main.rs:7
ClearDisplay ==
  /\ ctl = "clear_display"
  /\ chip' = clear_display(chip)
  /\ ctl' = "load_rom"
  /\ UNCHANGED <<overflow_checks, cycles, pre, trace>>

\* main.rs:9-11: the file is read and copied, or the read fails, which main
\* reports and survives
LoadRom ==
  /\ ctl = "load_rom"
  /\ \/ \E file \in Roms : chip' = load_rom(chip, file)
     \/ chip' = chip
  /\ ctl' = IF chip'.panic THEN "panicked" ELSE "get_next_instruction"
  /\ UNCHANGED <<overflow_checks, cycles, pre, trace>>

\* main.rs:14.  MaxCycles bounds the iterations explored once a ROM is loaded;
\* the run of the machine whose ROM could not be read, which executes the zero
\* bytes above the font up to the end of memory, is explored to its end.
MainGetNextInstruction ==
  /\ ctl = "get_next_instruction"
  /\ cycles < MaxCycles \/ chip.mem = New.mem
  /\ chip' = get_next_instruction(chip)
  /\ ctl' = IF chip'.panic THEN "panicked" ELSE "execute"
  /\ cycles' = cycles + 1
  /\ pre' = chip
  /\ UNCHANGED <<overflow_checks, trace>>

\* main.rs:16.  pre and trace are history: pre is the struct at the top of this
\* iteration of the loop (main's fetch changes its opcode and pc alone), and
\* trace lists, for every execute of the first MaxCycles iterations that
\* reached its match, the address the opcode was fetched from (at), the opcode
\* (op), the pc at the top of the iteration (top), the sp, registers, address
\* register and framebuffer on entry (sp, regs, ar, gfx) and whether the match
\* panicked.
MainExecute ==
  /\ ctl = "execute"
  /\ \E rand_byte \in RandBytes : chip' = execute(chip, rand_byte)
  /\ ctl' = IF chip'.panic THEN "panicked" ELSE "get_next_instruction"
  /\ trace' = IF Dispatches(chip) /\ cycles <= MaxCycles
              THEN Append(trace, [at |-> chip.pc, op |-> chip'.opcode,
                                  top |-> pre.pc, sp |-> chip.sp,
                                  regs |-> chip.registers, ar |-> chip.ar,
                                  gfx |-> chip.graphics,
                                  panic |-> chip'.panic])
              ELSE trace
  /\ UNCHANGED <<overflow_checks, cycles, pre>>

Next == ClearDisplay \/ LoadRom \/ MainGetNextInstruction \/ MainExecute

Spec == Init /\ [][Next]_vars

\* ------------------------------------------------------------ properties
\* The state is the one an execute that reached its match has just produced.
JustExecuted == cycles > 0 /\ cycles <= MaxCycles /\ Len(trace) = cycles

\* The trace entry of the most recent execute
Last == trace[Len(trace)]

\* The fields of a 16-bit opcode, by arithmetic
ClassOf(op) == op \div 4096
XOf(op) == (op \div 256) % 16
YOf(op) == (op \div 16) % 16
NOf(op) == op % 16
KKOf(op) == op % 256
NNNOf(op) == op % 4096

\* C1: every iteration of the run loop dispatches the opcode found at the pc
\* the iteration started with (one fetch, pc advanced by 2 before dispatch), so
\* the k-th instruction of a straight-line program at 0x200 is the k-th one
\* executed and none is skipped.
C1_OneFetchPerCycle ==
  \A k \in DOMAIN trace : trace[k].at = trace[k].top

\* C2: 00EE executed right after a 2nnn that was entered with sp < 16 leaves pc
\* at the address following the call and sp at its value before the call.
C2_CallRetRoundTrip ==
  (/\ JustExecuted
   /\ Len(trace) >= 2
   /\ ClassOf(trace[Len(trace) - 1].op) = 2
   /\ trace[Len(trace) - 1].sp < 16
   /\ Last.op = 238)
  => (/\ ~chip.panic
      /\ chip.pc = trace[Len(trace) - 1].at + 2
      /\ chip.sp = trace[Len(trace) - 1].sp)

\* Every instruction executed so far is a 2nnn (the first one entered with the
\* empty stack of a new machine).
OnlyCalls ==
  /\ trace # << >>
  /\ \A k \in DOMAIN trace : ClassOf(trace[k].op) = 2
  /\ trace[1].sp = 0

\* C3: from an empty stack 16 consecutive 2nnn succeed and the 17th fails: it
\* halts execution, leaves the 16 saved return addresses alone and does not
\* raise sp above 16.
C3_SeventeenthCallFails ==
  (JustExecuted /\ OnlyCalls)
  => (/\ Len(trace) <= 16 => (~chip.panic /\ chip.sp = Len(trace))
      /\ Len(trace) = 17 =>
           (chip.panic /\ chip.sp <= 16 /\ chip.stack = pre.stack))

\* C4: 00EE fails exactly when sp is 0; with sp > 0 it loads pc from the slot
\* pushed last and decrements sp.
C4_RetUnderflowIffEmpty ==
  (JustExecuted /\ Last.op = 238)
  => (/\ chip.panic <=> Last.sp = 0
      /\ Last.sp > 0 =>
           (chip.pc = pre.stack[Last.sp - 1] /\ chip.sp = Last.sp - 1))

\* C5: 1nnn leaves pc equal to the 12-bit nnn.
C5_JumpFullAddress ==
  (JustExecuted /\ ClassOf(Last.op) = 1) => chip.pc = NNNOf(Last.op)

\* C6: 6xkk leaves Vx equal to kk.
C6_LoadImmediate ==
  (JustExecuted /\ ClassOf(Last.op) = 6)
  => (~chip.panic /\ chip.registers[XOf(Last.op)] = KKOf(Last.op))

\* C6 witness: a 6xkk has replaced a non-zero Vx by a different non-zero kk.
C6_Witness ==
  /\ JustExecuted
  /\ ClassOf(Last.op) = 6
  /\ pre.registers[XOf(Last.op)] \notin {0, KKOf(Last.op)}
  /\ chip.registers[XOf(Last.op)] = KKOf(Last.op)
  /\ KKOf(Last.op) # 0

\* C7: 7xkk does not fail, leaves Vx equal to (Vx + kk) mod 256, also when
\* Vx + kk > 255, and leaves VF alone when x is not F.
C7_AddImmediateWraps ==
  (JustExecuted /\ ClassOf(Last.op) = 7)
  => (/\ ~chip.panic
      /\ chip.registers[XOf(Last.op)]
           = (pre.registers[XOf(Last.op)] + KKOf(Last.op)) % 256
      /\ XOf(Last.op) # 15 => chip.registers[15] = pre.registers[15])

\* C8: 8xy4 with x not F leaves Vx equal to (Vx + Vy) mod 256 and VF equal to 1
\* when Vx + Vy > 255 and to 0 otherwise.
C8_AddWithCarry ==
  (JustExecuted /\ ClassOf(Last.op) = 8 /\ NOf(Last.op) = 4 /\ XOf(Last.op) # 15)
  => LET sum == pre.registers[XOf(Last.op)] + pre.registers[YOf(Last.op)]
     IN /\ chip.registers[XOf(Last.op)] = sum % 256
        /\ chip.registers[15] = (IF sum > 255 THEN 1 ELSE 0)

\* C9: 8xy5 with x not F does not fail, leaves Vx equal to (Vx - Vy) mod 256,
\* and VF equal to 1 when Vx > Vy and to 0 when Vx < Vy.
C9_SubWithBorrow ==
  (JustExecuted /\ ClassOf(Last.op) = 8 /\ NOf(Last.op) = 5 /\ XOf(Last.op) # 15)
  => LET vx == pre.registers[XOf(Last.op)]
         vy == pre.registers[YOf(Last.op)]
     IN /\ ~chip.panic
        /\ chip.registers[XOf(Last.op)] = (vx - vy) % 256
        /\ vx > vy => chip.registers[15] = 1
        /\ vx < vy => chip.registers[15] = 0

\* C10: Annn sets the address register I to nnn and leaves V0..VF unchanged.
C10_LoadAddressRegister ==
  (JustExecuted /\ ClassOf(Last.op) = 10)
  => (chip.ar = NNNOf(Last.op) /\ chip.registers = pre.registers)

\* The trace entry of the execute before the most recent one
Prev == trace[Len(trace) - 1]

\* Bit col of a sprite byte, col 0 being the most significant bit
BitOf(byte, col) == (byte \div (2 ^ (7 - col))) % 2

\* The <<row, col>> of the set bits of the sprite bytes mem[I] .. mem[I+rows-1]
SetBits(c, I, rows) ==
  { rc \in (0..(rows - 1)) \X (0..7) :
      I + rc[1] < MemSize /\ BitOf(MemRead(c, I + rc[1]), rc[2]) = 1 }

\* The framebuffer cell of column X, row Y: 64 cells a row, or indexed the way
\* draw_sprite writes its index (column * 64 + row)
CellOf(layout, X, Y) == IF layout = "row-major" THEN Y * 64 + X ELSE X * 64 + Y

\* The cell a Dxyn entered with the registers regs gives the sprite bit rc
TargetCell(layout, op, regs, rc) ==
  CellOf(layout, ((regs[XOf(op)] % 64) + rc[2]) % 64,
                 ((regs[YOf(op)] % 32) + rc[1]) % 32)

\* C11: the same Dxyn executed twice in a row with the same I, Vx, Vy and a
\* non-zero sprite leaves the framebuffer as it was before the first draw, and
\* the second draw leaves VF = 1.
C11_DrawTwiceRestores ==
  (/\ JustExecuted
   /\ Len(trace) >= 2
   /\ ClassOf(Last.op) = 13
   /\ Prev.op = Last.op
   /\ Prev.ar = Last.ar
   /\ Prev.regs[XOf(Last.op)] = Last.regs[XOf(Last.op)]
   /\ Prev.regs[YOf(Last.op)] = Last.regs[YOf(Last.op)]
   /\ SetBits(pre, Last.ar, NOf(Last.op)) # {})
  => (/\ ~chip.panic
      /\ chip.graphics = Prev.gfx
      /\ chip.registers[15] = 1)

\* C12: Dxyn wraps and neither clips nor fails: drawn on an empty framebuffer,
\* the set bits (row, col) of the n sprite rows light exactly the cells of
\* column (x_coord + col) mod 64, row (y_coord + row) mod 32.  Stated for the
\* height n = 13, the one height draw_sprite draws, so that the height (C19)
\* plays no part, and with either layout of the cells accepted.
C12_DrawWraps ==
  (JustExecuted /\ ClassOf(Last.op) = 13 /\ NOf(Last.op) = 13 /\ Last.gfx = {})
  => (/\ ~chip.panic
      /\ \E layout \in {"row-major", "as-indexed"} :
           chip.graphics =
             { TargetCell(layout, Last.op, Last.regs, rc) :
                 rc \in SetBits(pre, Last.ar, NOf(Last.op)) })

\* C13: with I <= 4093, Fx33 leaves the hundreds, tens and ones digits of Vx in
\* mem[I], mem[I+1], mem[I+2], all three written also when Vx < 100.
C13_BcdDigits ==
  (/\ JustExecuted
   /\ ClassOf(Last.op) = 15
   /\ KKOf(Last.op) = 51
   /\ Last.ar <= 4093)
  => LET vx == Last.regs[XOf(Last.op)]
     IN /\ ~chip.panic
        /\ MemRead(chip, Last.ar) = vx \div 100
        /\ MemRead(chip, Last.ar + 1) = (vx \div 10) % 10
        /\ MemRead(chip, Last.ar + 2) = vx % 10

\* A step that is a tick of the timers: each non-zero timer one less, a zero
\* timer still zero.
TimersTicked ==
  /\ chip'.delay = (IF chip.delay > 0 THEN chip.delay - 1 ELSE 0)
  /\ chip'.sound = (IF chip.sound > 0 THEN chip.sound - 1 ELSE 0)

\* C14: the core exposes a tick of the timers: whenever a timer is non-zero and
\* the program can take a step, it can take one that decrements each non-zero
\* timer by exactly 1 and leaves a zero timer at 0 (so that N ticks bring a
\* timer set to N down to 0).
C14_TickTimersExposed ==
  ((chip.delay > 0 \/ chip.sound > 0) /\ ENABLED Next)
  => ENABLED (Next /\ TimersTicked)

\* C15: Fx15 writes Vx into the delay timer and leaves the sound timer, Fx18
\* writes Vx into the sound timer and leaves the delay timer, Fx07 reads the
\* delay timer into Vx; so Fy07 right after Fx15 leaves Vy equal to the value
\* Vx held.
C15_TimerTransfers ==
  (JustExecuted /\ ClassOf(Last.op) = 15)
  => LET vx == Last.regs[XOf(Last.op)]
     IN /\ KKOf(Last.op) = 21 => (chip.delay = vx /\ chip.sound = pre.sound)
        /\ KKOf(Last.op) = 24 => (chip.sound = vx /\ chip.delay = pre.delay)
        /\ KKOf(Last.op) = 7 => chip.registers[XOf(Last.op)] = pre.delay
        /\ (/\ KKOf(Last.op) = 7
            /\ Len(trace) >= 2
            /\ ClassOf(Prev.op) = 15
            /\ KKOf(Prev.op) = 21)
           => chip.registers[XOf(Last.op)] = Prev.regs[XOf(Prev.op)]

\* The opcodes that match no known sub-case
UnknownOpcode(op) ==
  \/ ClassOf(op) = 0 /\ op \notin {224, 238}
  \/ ClassOf(op) = 8 /\ NOf(op) \in (8..13) \cup {15}
  \/ ClassOf(op) = 14 /\ KKOf(op) \notin {158, 161}
  \/ ClassOf(op) = 15 /\ KKOf(op) \notin {7, 10, 21, 24, 30, 41, 51, 85, 101}

\* C16: an opcode that matches no known sub-case is not fatal: executing it
\* leaves registers, I, stack, sp, memory, timers and framebuffer unchanged and
\* pc at the address after the opcode, and the next instruction can be fetched.
C16_UnknownOpcodeNonFatal ==
  (JustExecuted /\ UnknownOpcode(Last.op))
  => (/\ chip = [pre EXCEPT !.opcode = Last.op, !.pc = Last.at + 2]
      /\ ~chip.panic
      /\ ctl = "get_next_instruction"
      /\ ~get_next_instruction(chip).panic)

\* C16 witness: an unknown opcode of a class other than 0 has been executed
\* with a non-zero register file.
C16_Witness ==
  /\ JustExecuted
  /\ UnknownOpcode(Last.op)
  /\ ClassOf(Last.op) # 0
  /\ chip.registers # New.registers
  /\ ~chip.panic

RECURSIVE Outstanding(_)
\* The return addresses of the calls among the first k executed instructions
\* that have not returned, in call order: a 2nnn that does not fail adds the
\* address after it, a 00EE that does not fail removes the last one.
Outstanding(k) ==
  IF k = 0 THEN << >>
  ELSE LET e == trace[k]
           s == Outstanding(k - 1)
       IN IF ClassOf(e.op) = 2 /\ ~e.panic THEN Append(s, e.at + 2)
          ELSE IF e.op = 238 /\ ~e.panic /\ s # << >> THEN SubSeq(s, 1, Len(s) - 1)
          ELSE s

\* C17: in every reachable state 0 <= sp <= 16, sp is the number of calls that
\* have not returned, and stack[0..sp-1] holds their return addresses in call
\* order.
C17_StackDiscipline ==
  cycles <= MaxCycles
  => LET s == Outstanding(Len(trace))
     IN /\ 0 <= chip.sp /\ chip.sp <= 16
        /\ chip.sp = Len(s)
        /\ \A j \in 1..Len(s) : j <= StackLen => chip.stack[j - 1] = s[j]

\* The thread has panicked on self.mem[pc] or self.mem[pc + 1] (in
\* get_next_instruction or in the println! of execute): no other panic leaves
\* pc + 1 outside the memory.
FetchOutOfRange == chip.panic /\ chip.pc + 1 >= MemSize

\* The number of bytes at I the opcode op addresses: the digits of Fx33, the
\* x + 1 registers of Fx55 and Fx65, the rows of Dxyn (draw_sprite reads 13)
OperandBytes(op) ==
  IF ClassOf(op) = 13 THEN 13
  ELSE IF ClassOf(op) = 15 /\ KKOf(op) = 51 THEN 3
  ELSE IF ClassOf(op) = 15 /\ KKOf(op) \in {85, 101} THEN XOf(op) + 1
  ELSE 0

\* The thread has panicked in Fx33, Fx55, Fx65 or Dxyn whose bytes at I reach
\* beyond the memory.
OperandOutOfRange ==
  /\ JustExecuted
  /\ chip.panic
  /\ OperandBytes(Last.op) > 0
  /\ Last.ar + OperandBytes(Last.op) > MemSize

\* C18: no step ends the machine with an index outside the memory (the fetch at
\* pc and pc + 1, the bytes at I of Fx33, Fx55, Fx65 and Dxyn) or outside the
\* framebuffer: every cell draw_sprite has written lies in the 2048-cell grid.
C18_AddressingSafe ==
  /\ ~FetchOutOfRange
  /\ ~OperandOutOfRange
  /\ \A i \in chip.graphics : 0 <= i /\ i < GraphicsSize

\* The row of the framebuffer cell i: 64 cells a row, or the way draw_sprite
\* writes its index (column * 64 + row)
RowOf(layout, i) == IF layout = "row-major" THEN i \div 64 ELSE i % 64

\* The n rows a Dxyn entered with the registers regs may draw in
DrawnRows(op, regs) ==
  { ((regs[YOf(op)] % 32) + r) % 32 : r \in 0..(NOf(op) - 1) }

\* C19: the height of a Dxyn is its low nibble n: the cells it changes lie in
\* the n rows from y_coord (with either layout of the cells accepted), and
\* Dxy0 leaves the framebuffer unchanged and VF = 0.
C19_DrawHeight ==
  (JustExecuted /\ ClassOf(Last.op) = 13)
  => (/\ \E layout \in {"row-major", "as-indexed"} :
           \A i \in (chip.graphics \ Last.gfx) \cup (Last.gfx \ chip.graphics) :
             RowOf(layout, i) \in DrawnRows(Last.op, Last.regs)
      /\ NOf(Last.op) = 0
           => (/\ ~chip.panic
               /\ chip.graphics = Last.gfx
               /\ chip.registers[15] = 0))

\* A step of the program changes a timer only in execute, on an Fx15 or Fx18,
\* and then to the value Vx had when the instruction was fetched.
TimerStep ==
  LET op == chip'.opcode
      vx == chip.registers[XOf(op)]
      writes == /\ ctl = "execute"
                /\ ClassOf(op) = 15
                /\ KKOf(op) \in {21, 24}
  IN /\ chip'.delay # chip.delay => (writes /\ chip'.delay = vx)
     /\ chip'.sound # chip.sound => (writes /\ chip'.sound = vx)

\* C20: instruction execution never decrements a timer: along every run, every
\* step other than an Fx15 or Fx18 leaves the delay and the sound timer as they
\* were, and an Fx15 or Fx18 changes a timer only by overwriting it with Vx.
C20_TimersNeverDecremented == [][TimerStep]_vars

\* An instruction other than Fx15 and Fx18 has been executed while a timer was
\* running, and both timers are what they were at the top of the loop.
C20_Witness ==
  /\ JustExecuted
  /\ ~chip.panic
  /\ ~(ClassOf(Last.op) = 15 /\ KKOf(Last.op) \in {21, 24})
  /\ pre.delay + pre.sound > 0
  /\ chip.delay = pre.delay
  /\ chip.sound = pre.sound

====
